---- MODULE Spec2Model ----
(***************************************************************************)
(* Model of the two example programs of the repository.                    *)
(*                                                                         *)
(* Program A: "Exception Handling/main.cpp" -- processData, ResourceGuard,  *)
(*            safeOperation and the driver main.                           *)
(* Program B: "Preprocessor Directives/main.cpp" -- one main whose text is  *)
(*            shaped by #define / #undef / #ifdef / #if directives.         *)
(*                                                                         *)
(* A line written to a stream is the sequence of the items inserted before  *)
(* endl; an int inserted into a stream is formatted as decimal text.        *)
(***************************************************************************)
EXTENDS Integers, Sequences, FiniteSets, TLC

VARIABLES
    \* ---- Program A ----
    program,       \* the guarded scopes (try blocks) the driver runs, in order
    blk,           \* index of the guarded scope main is in
    stmt,          \* index of the statement inside that scope
    pc,            \* position of the thread of control
    value,         \* processData's parameter
    exc,           \* the exception in flight, or NoExc
    guards,        \* number of ResourceGuard objects alive
    log,           \* lines written so far, stdout and stderr in emission order
    calls,         \* the calls made so far, in order, each with the scope it was made in
    outcomes,      \* how each concluded processData call ended: its argument and exception
    handled,       \* the guarded scopes whose handler body has run, in order
    exit,          \* << >> while running, <<status>> once the process has ended
    badAllocWhat,  \* what std::bad_alloc::what() returns (implementation-defined)
    \* ---- Program B ----
    line,          \* source line the translation/execution is at
    macros,        \* the macro table: name -> replacement
    cond,          \* state of the conditional-inclusion group
    vars_,         \* the local variables of main
    bout,          \* lines written to stdout
    env,           \* __FILE__, __DATE__, __TIME__ as the build supplies them
    bexit          \* << >> while running, <<status>> once Program B has ended

varsA == <<program, blk, stmt, pc, value, exc, guards, log, calls, outcomes, handled, exit, badAllocWhat>>
varsB == <<line, macros, cond, vars_, bout, env, bexit>>
vars == <<varsA, varsB>>

(***************************************************************************)
(* Bounds                                                                  *)
(***************************************************************************)
\* processData is exercised on every value from -Margin to Limit + Margin
Margin == 3

(***************************************************************************)
(* Program A: exception types                                              *)
(***************************************************************************)
NoExc == [kind |-> "none", what |-> ""]

\* direct base class of each exception type
Parent ==
    [ invalid_argument  |-> "logic_error",
      logic_error       |-> "exception",
      overflow_error    |-> "runtime_error",
      runtime_error     |-> "exception",
      bad_alloc         |-> "exception",
      MyCustomException |-> "exception",
      exception         |-> "none" ]

RECURSIVE IsA(_, _)
IsA(kind, type) ==
    IF kind = type THEN TRUE
    ELSE IF kind \notin DOMAIN Parent THEN FALSE
    ELSE IsA(Parent[kind], type)

\* the catch clause `catch (const h&)` / `catch (...)` accepts an exception of type kind
MatchesNoCatchAll(h, kind) == IsA(kind, h)
Matches(h, kind) == h = "..." \/ IsA(kind, h)

\* implementations differ on the text of bad_alloc::what()
BadAllocWhatChoices == {"std::bad_alloc", "bad allocation"}

\* MyCustomException::what(): the message given to the constructor
MyCustomException(message) == [kind |-> "MyCustomException", what |-> message]
invalid_argument(message) == [kind |-> "invalid_argument", what |-> message]
overflow_error(message) == [kind |-> "overflow_error", what |-> message]
bad_alloc == [kind |-> "bad_alloc", what |-> badAllocWhat]

(***************************************************************************)
(* Program A: output                                                       *)
(***************************************************************************)
\* call: the number of calls made when the line is written
Cout(items) == [stream |-> "out", items |-> items, call |-> Len(calls)]
Cerr(items) == [stream |-> "err", items |-> items, call |-> Len(calls)]

AcquiredLine == Cout(<<"Resource acquired.">>)
ReleasedLine == Cout(<<"Resource released (simulating finally block).">>)
SafeLine == Cout(<<"This operation is guaranteed not to throw an exception.">>)
ValidLine(v) == Cout(<<"Value is valid: ", ToString(v)>>)

(***************************************************************************)
(* Program A: processData's conditions                                     *)
(***************************************************************************)
Limit == 100
AllocProbe == 99

IsNegative(v) == v < 0
IsZero(v) == v = 0
ExceedsOrEquals(v) == v >= Limit
Exceeds(v) == v > Limit
IsAllocProbeNever(v) == FALSE
IsAllocProbe(v) == v = AllocProbe

(***************************************************************************)
(* Program A: the driver's guarded scopes                                  *)
(***************************************************************************)
PD(v) == [fn |-> "processData", arg |-> v]
SafeOp == [fn |-> "safeOperation", arg |-> 0]

Scope(stmts, handler, text, printsWhat) ==
    [stmts |-> stmts, handler |-> handler, text |-> text, printsWhat |-> printsWhat]

MainProgram ==
    << Scope(<<PD(-1)>>, "invalid_argument",
             "Caught a logic error (invalid_argument): ", TRUE),
       Scope(<<PD(0)>>, "MyCustomException",
             "Caught a custom exception: ", TRUE),
       Scope(<<PD(101)>>, "overflow_error",
             "Caught a runtime error (overflow_error): ", TRUE),
       Scope(<<PD(99)>>, "bad_alloc",
             "Caught a memory allocation error (bad_alloc): ", TRUE),
       Scope(<<PD(10)>>, "exception",
             "Caught a general exception: ", TRUE),
       Scope(<<PD(50), PD(999)>>, "...",
             "Caught an unexpected exception.", FALSE),
       Scope(<<SafeOp>>, "...",
             "This block will never be executed as safeOperation() is noexcept.", FALSE) >>

\* one guarded scope of the driver's shape around a single call, any value
Values == (0 - Margin) .. (Limit + Margin)
CatchAllScope(v) ==
    Scope(<<PD(v)>>, "...", "Caught an unexpected exception.", FALSE)

\* the line a handler writes: its text, then e.what() where the handler prints it
HandlerLineTextOnly(scope, e) == Cerr(<<scope.text>>)
HandlerLine(scope, e) ==
    Cerr(IF scope.printsWhat THEN <<scope.text, e.what>> ELSE <<scope.text>>)

(***************************************************************************)
(* Program A: actions                                                      *)
(***************************************************************************)
InScope == blk <= Len(program)
CurScope == program[blk]
CurStmt == CurScope.stmts[stmt]

\* control leaves the scope (after its handler)
ToNextScope == blk' = blk + 1 /\ stmt' = 1

\* control falls to the next statement of the scope, or past the scope
ToNextStmtLeavesScope == ToNextScope
ToNextStmt ==
    IF stmt < Len(CurScope.stmts)
    THEN blk' = blk /\ stmt' = stmt + 1
    ELSE blk' = blk + 1 /\ stmt' = 1

CallProcessData ==
    /\ pc = "main" /\ InScope /\ CurStmt.fn = "processData"
    /\ value' = CurStmt.arg
    /\ calls' = Append(calls, [fn |-> CurStmt.fn, arg |-> CurStmt.arg, scope |-> blk])
    /\ pc' = "ctor"
    /\ UNCHANGED <<program, blk, stmt, exc, guards, log, outcomes, handled, exit, badAllocWhat>>
    /\ UNCHANGED varsB

\* ResourceGuard guard;
GuardCtor ==
    /\ pc = "ctor"
    /\ log' = Append(log, AcquiredLine)
    /\ guards' = guards + 1
    /\ pc' = "if74"
    /\ UNCHANGED <<program, blk, stmt, value, exc, calls, outcomes, handled, exit, badAllocWhat>>
    /\ UNCHANGED varsB

Throw(e) ==
    /\ exc' = e
    /\ pc' = "search"

If74 ==
    /\ pc = "if74"
    /\ IF IsNegative(value)
       THEN Throw(invalid_argument("Negative value is not allowed."))
       ELSE pc' = "if76" /\ exc' = exc
    /\ UNCHANGED <<program, blk, stmt, value, guards, log, calls, outcomes, handled, exit, badAllocWhat>>
    /\ UNCHANGED varsB

If76 ==
    /\ pc = "if76"
    /\ IF IsZero(value)
       THEN Throw(MyCustomException("Zero is not permitted."))
       ELSE pc' = "if78" /\ exc' = exc
    /\ UNCHANGED <<program, blk, stmt, value, guards, log, calls, outcomes, handled, exit, badAllocWhat>>
    /\ UNCHANGED varsB

If78 ==
    /\ pc = "if78"
    /\ IF Exceeds(value)
       THEN Throw(overflow_error("Value exceeds the allowable range."))
       ELSE pc' = "if83" /\ exc' = exc
    /\ UNCHANGED <<program, blk, stmt, value, guards, log, calls, outcomes, handled, exit, badAllocWhat>>
    /\ UNCHANGED varsB

If83 ==
    /\ pc = "if83"
    /\ IF IsAllocProbe(value)
       THEN Throw(bad_alloc)
       ELSE pc' = "print88" /\ exc' = exc
    /\ UNCHANGED <<program, blk, stmt, value, guards, log, calls, outcomes, handled, exit, badAllocWhat>>
    /\ UNCHANGED varsB

Print88 ==
    /\ pc = "print88"
    /\ log' = Append(log, ValidLine(value))
    /\ pc' = "dtor"
    /\ UNCHANGED <<program, blk, stmt, value, exc, guards, calls, outcomes, handled, exit, badAllocWhat>>
    /\ UNCHANGED varsB

\* a thrown exception looks for a handler in the enclosing guarded scope; with none
\* std::terminate ends the process, the stack unwound or not as the build chooses
FindHandler ==
    /\ pc = "search"
    /\ IF Matches(CurScope.handler, exc.kind)
       THEN /\ pc' = "dtor"
            /\ UNCHANGED <<log, guards, exit>>
       ELSE /\ pc' = "terminated"
            /\ exit' = <<134>>
            /\ \E unwinds \in BOOLEAN :
                 IF unwinds
                 THEN log' = Append(log, ReleasedLine) /\ guards' = guards - 1
                 ELSE UNCHANGED <<log, guards>>
    /\ UNCHANGED <<program, blk, stmt, value, exc, calls, outcomes, handled, badAllocWhat>>
    /\ UNCHANGED varsB

\* ~ResourceGuard(), on normal return and on unwinding alike
DtorKeepsGuard == guards
DtorGuards == guards - 1
DtorLogSilent == log
DtorLog == Append(log, ReleasedLine)

GuardDtor ==
    /\ pc = "dtor"
    /\ log' = DtorLog
    /\ guards' = DtorGuards
    /\ IF exc = NoExc
       THEN pc' = "main" /\ ToNextStmt
       ELSE pc' = "handler" /\ UNCHANGED <<blk, stmt>>
    /\ outcomes' = Append(outcomes, [arg |-> value, kind |-> exc.kind, what |-> exc.what])
    /\ UNCHANGED <<program, value, exc, calls, handled, exit, badAllocWhat>>
    /\ UNCHANGED varsB

\* the body of the catch clause, then control continues after the scope
Handler ==
    /\ pc = "handler"
    /\ log' = Append(log, HandlerLine(CurScope, exc))
    /\ handled' = Append(handled, blk)
    /\ exc' = NoExc
    /\ pc' = "main"
    /\ ToNextScope
    /\ UNCHANGED <<program, value, guards, calls, outcomes, exit, badAllocWhat>>
    /\ UNCHANGED varsB

CallSafeOperation ==
    /\ pc = "main" /\ InScope /\ CurStmt.fn = "safeOperation"
    /\ calls' = Append(calls, [fn |-> CurStmt.fn, arg |-> CurStmt.arg, scope |-> blk])
    /\ pc' = "safe"
    /\ UNCHANGED <<program, blk, stmt, value, exc, guards, log, outcomes, handled, exit, badAllocWhat>>
    /\ UNCHANGED varsB

\* safeOperation() noexcept: one line, no throw
safeOperation ==
    /\ pc = "safe"
    /\ log' = Append(log, SafeLine)
    /\ pc' = "main"
    /\ ToNextStmt
    /\ UNCHANGED <<program, value, exc, guards, calls, outcomes, handled, exit, badAllocWhat>>
    /\ UNCHANGED varsB

\* return 0;
ReturnFromMain ==
    /\ pc = "main" /\ ~InScope
    /\ exit' = <<0>>
    /\ pc' = "done"
    /\ UNCHANGED <<program, blk, stmt, value, exc, guards, log, calls, outcomes, handled, badAllocWhat>>
    /\ UNCHANGED varsB

(***************************************************************************)
(* Program B: tokens, macros, the source lines                             *)
(***************************************************************************)
Str(t) == [t |-> "str", s |-> t, n |-> 0]
Num(k) == [t |-> "int", s |-> "", n |-> k]
Var(name) == [t |-> "var", s |-> name, n |-> 0]        \* a local variable
Mac(name) == [t |-> "mac", s |-> name, n |-> 0]        \* an identifier the preprocessor may replace
Param(k) == [t |-> "param", s |-> "", n |-> k]         \* k-th parameter in a macro body
CallMac(name, arg) == [t |-> "call", s |-> name, n |-> 0, arg |-> arg]

ObjectMacro(body) == [kind |-> "object", body |-> body]
FunctionMacro(body) == [kind |-> "function", body |-> body]

\* #define GREETING(name) ("Hello, " + name + "! Welcome to the game.")
GreetingBody == <<Str("Hello, "), Param(1), Str("! Welcome to the game.")>>

Define(name, macro) == [kind |-> "define", name |-> name, macro |-> macro]
Undef(name) == [kind |-> "undef", name |-> name]
Declare(name, val) == [kind |-> "declare", name |-> name, val |-> val]
PrintLn(items) == [kind |-> "print", items |-> items]
IfElse(lhs, rhs, thenItems, elseItems) ==
    [kind |-> "ifelse", lhs |-> lhs, rhs |-> rhs, thenItems |-> thenItems, elseItems |-> elseItems]
Ifdef(name) == [kind |-> "ifdef", name |-> name]
PPIf(ident, k) == [kind |-> "if", ident |-> ident, k |-> k]
PPElif(ident, k) == [kind |-> "elif", ident |-> ident, k |-> k]
PPElse == [kind |-> "else"]
PPEndif == [kind |-> "endif"]
Return(k) == [kind |-> "return", k |-> k]

\* the lines of main that hold a directive or a statement
CodeLines == {39, 40, 42, 43, 45, 46, 53, 54, 56, 57, 60, 62, 63, 64, 65, 66, 67,
              70, 71, 72, 75, 77, 78, 79, 80, 81, 82, 83, 85}

\* lines 46-50 are one if/else statement
Source(n) ==
    CASE n = 39 -> Define("MAX_HEALTH", ObjectMacro(<<Num(100)>>))
      [] n = 40 -> Define("GREETING", FunctionMacro(GreetingBody))
      [] n = 42 -> Declare("playerName", Str("Hero"))
      [] n = 43 -> PrintLn(<<CallMac("GREETING", "playerName")>>)
      [] n = 45 -> Declare("playerHealth", Num(90))
      [] n = 46 -> IfElse(Var("playerHealth"), Mac("MAX_HEALTH"),
                          <<Str("Health exceeds maximum limit!")>>,
                          <<Str("Your current health is: "), Var("playerHealth"),
                            Str(" out of "), Mac("MAX_HEALTH")>>)
      [] n = 53 -> Undef("MAX_HEALTH")
      [] n = 54 -> Define("MAX_HEALTH", ObjectMacro(<<Num(150)>>))
      [] n = 56 -> Declare("bossHealth", Num(120))
      [] n = 57 -> PrintLn(<<Str("Boss health: "), Var("bossHealth"),
                             Str(" out of "), Mac("MAX_HEALTH")>>)
      [] n = 60 -> Define("DEBUG", ObjectMacro(<< >>))
      [] n = 62 -> Ifdef("DEBUG")
      [] n = 63 -> PrintLn(<<Str("[DEBUG] Debugging information enabled.")>>)
      [] n = 64 -> PrintLn(<<Str("[DEBUG] Player name: "), Var("playerName")>>)
      [] n = 65 -> PrintLn(<<Str("[DEBUG] Player health: "), Var("playerHealth")>>)
      [] n = 66 -> PrintLn(<<Str("[DEBUG] Boss health: "), Var("bossHealth")>>)
      [] n = 67 -> PPEndif
      [] n = 70 -> PrintLn(<<Str("File: "), Mac("__FILE__")>>)
      [] n = 71 -> PrintLn(<<Str("Compiled on: "), Mac("__DATE__"),
                             Str(" at "), Mac("__TIME__")>>)
      [] n = 72 -> PrintLn(<<Str("Current line number: "), Mac("__LINE__")>>)
      [] n = 75 -> Declare("difficulty", Num(2))
      [] n = 77 -> PPIf("difficulty", 1)
      [] n = 78 -> PrintLn(<<Str("Easy mode activated.")>>)
      [] n = 79 -> PPElif("difficulty", 2)
      [] n = 80 -> PrintLn(<<Str("Normal mode activated.")>>)
      [] n = 81 -> PPElse
      [] n = 82 -> PrintLn(<<Str("Hard mode activated.")>>)
      [] n = 83 -> PPEndif
      [] n = 85 -> Return(0)

FirstLine == 39
LastLine == 85

\* the next line of main that holds code
NextLine(n) ==
    IF n >= LastLine THEN LastLine + 1
    ELSE CHOOSE m \in CodeLines : m > n /\ \A k \in CodeLines : k > n => m <= k

\* what the build environment may supply for __FILE__, __DATE__, __TIME__
Files == {"main.cpp", "Preprocessor Directives/main.cpp"}
Dates == {"Jan  1 1970", "Nov  1 2026"}
Times == {"00:00:00", "18:39:07"}

(***************************************************************************)
(* Program B: macro replacement and evaluation                             *)
(***************************************************************************)
IsDefined(m, name) == name \in DOMAIN m

DefineMacro(m, name, macro) ==
    [x \in (DOMAIN m) \cup {name} |-> IF x = name THEN macro ELSE m[x]]

UndefMacro(m, name) == [x \in (DOMAIN m) \ {name} |-> m[x]]

\* __LINE__ is the number of the source line being translated
LineMacroNext(n) == Num(n + 1)
LineMacro(n) == Num(n)

\* an identifier after macro replacement: predefined macros, then the macro table;
\* an identifier that is no macro stays what it is, here a variable of main
Replace(tok) ==
    IF tok.t # "mac" THEN tok
    ELSE IF tok.s = "__FILE__" THEN Str(env.file)
    ELSE IF tok.s = "__DATE__" THEN Str(env.date)
    ELSE IF tok.s = "__TIME__" THEN Str(env.time)
    ELSE IF tok.s = "__LINE__" THEN LineMacro(line)
    ELSE IF IsDefined(macros, tok.s) /\ macros[tok.s].kind = "object"
              /\ Len(macros[tok.s].body) = 1
         THEN macros[tok.s].body[1]
    ELSE Var(tok.s)

\* the value of an expression token at run time
Eval(tok) ==
    LET r == Replace(tok) IN
    IF r.t = "var" THEN vars_[r.s] ELSE r

\* operator<< : a string as it is, an int as decimal text
Text(v) == IF v.t = "int" THEN ToString(v.n) ELSE v.s

RECURSIVE Concat(_, _)
\* the + chain of a function-like macro's body, the parameter bound to variable arg
Concat(body, arg) ==
    IF body = << >> THEN ""
    ELSE LET h == Head(body)
             v == IF h.t = "param" THEN vars_[arg] ELSE h
         IN  Text(v) \o Concat(Tail(body), arg)

\* the text one stream item contributes to the line
ItemText(tok) ==
    IF tok.t = "call"
    THEN Concat(macros[tok.s].body, tok.arg)
    ELSE Text(Eval(tok))

LineOf(items) == [src |-> line, items |-> [i \in 1..Len(items) |-> ItemText(items[i])]]

\* playerHealth > MAX_HEALTH
HealthBelow(h, max) == h < max
HealthExceeds(h, max) == h > max

\* an identifier in a #if expression: its macro replacement if it is a macro,
\* 0 otherwise -- the preprocessor does not see the variables of main
PPIdentValue(name) ==
    IF IsDefined(macros, name) /\ macros[name].kind = "object" /\ Len(macros[name].body) = 1
    THEN macros[name].body[1].n
    ELSE 0

(***************************************************************************)
(* Program B: actions                                                      *)
(***************************************************************************)
Running == bexit = << >> /\ line \in CodeLines
Cur == Source(line)
\* the line is in a group the preprocessor is passing over
Skipped == cond \in {"seeking", "passed"}
IsDirective(k) == k \in {"ifdef", "if", "elif", "else", "endif"}

Advance == line' = NextLine(line)

DefineLine ==
    /\ Running /\ ~Skipped /\ Cur.kind = "define"
    /\ macros' = DefineMacro(macros, Cur.name, Cur.macro)
    /\ Advance
    /\ UNCHANGED <<cond, vars_, bout, env, bexit>>
    /\ UNCHANGED varsA

UndefLine ==
    /\ Running /\ ~Skipped /\ Cur.kind = "undef"
    /\ macros' = UndefMacro(macros, Cur.name)
    /\ Advance
    /\ UNCHANGED <<cond, vars_, bout, env, bexit>>
    /\ UNCHANGED varsA

DeclareLine ==
    /\ Running /\ ~Skipped /\ Cur.kind = "declare"
    /\ vars_' = [x \in (DOMAIN vars_) \cup {Cur.name} |->
                    IF x = Cur.name THEN Cur.val ELSE vars_[x]]
    /\ Advance
    /\ UNCHANGED <<macros, cond, bout, env, bexit>>
    /\ UNCHANGED varsA

PrintLine ==
    /\ Running /\ ~Skipped /\ Cur.kind = "print"
    /\ bout' = Append(bout, LineOf(Cur.items))
    /\ Advance
    /\ UNCHANGED <<macros, cond, vars_, env, bexit>>
    /\ UNCHANGED varsA

IfElseStatement ==
    /\ Running /\ ~Skipped /\ Cur.kind = "ifelse"
    /\ bout' = Append(bout,
                 IF HealthExceeds(Eval(Cur.lhs).n, Eval(Cur.rhs).n)
                 THEN LineOf(Cur.thenItems)
                 ELSE LineOf(Cur.elseItems))
    /\ Advance
    /\ UNCHANGED <<macros, cond, vars_, env, bexit>>
    /\ UNCHANGED varsA

IfdefLine ==
    /\ Running /\ cond = "none" /\ Cur.kind = "ifdef"
    /\ cond' = IF IsDefined(macros, Cur.name) THEN "taking" ELSE "seeking"
    /\ Advance
    /\ UNCHANGED <<macros, vars_, bout, env, bexit>>
    /\ UNCHANGED varsA

IfLine ==
    /\ Running /\ cond = "none" /\ Cur.kind = "if"
    /\ cond' = IF PPIdentValue(Cur.ident) = Cur.k THEN "taking" ELSE "seeking"
    /\ Advance
    /\ UNCHANGED <<macros, vars_, bout, env, bexit>>
    /\ UNCHANGED varsA

ElifLine ==
    /\ Running /\ cond # "none" /\ Cur.kind = "elif"
    /\ cond' = IF cond = "seeking"
               THEN (IF PPIdentValue(Cur.ident) = Cur.k THEN "taking" ELSE "seeking")
               ELSE "passed"
    /\ Advance
    /\ UNCHANGED <<macros, vars_, bout, env, bexit>>
    /\ UNCHANGED varsA

ElseLine ==
    /\ Running /\ cond # "none" /\ Cur.kind = "else"
    /\ cond' = IF cond = "seeking" THEN "taking" ELSE "passed"
    /\ Advance
    /\ UNCHANGED <<macros, vars_, bout, env, bexit>>
    /\ UNCHANGED varsA

EndifLine ==
    /\ Running /\ cond # "none" /\ Cur.kind = "endif"
    /\ cond' = "none"
    /\ Advance
    /\ UNCHANGED <<macros, vars_, bout, env, bexit>>
    /\ UNCHANGED varsA

\* a line of a group that is not taken is not part of the program
SkipLine ==
    /\ Running /\ Skipped /\ ~IsDirective(Cur.kind)
    /\ Advance
    /\ UNCHANGED <<macros, cond, vars_, bout, env, bexit>>
    /\ UNCHANGED varsA

ReturnLine ==
    /\ Running /\ ~Skipped /\ Cur.kind = "return"
    /\ bexit' = <<Cur.k>>
    /\ Advance
    /\ UNCHANGED <<macros, cond, vars_, bout, env>>
    /\ UNCHANGED varsA

(***************************************************************************)
(* Each program's state while the other one runs                           *)
(***************************************************************************)
IdleB ==
    /\ line = 0 /\ macros = << >> /\ cond = "none" /\ vars_ = << >>
    /\ bout = << >> /\ env = << >> /\ bexit = << >>

IdleA ==
    /\ program = << >>
    /\ blk = 1 /\ stmt = 1 /\ pc = "idle"
    /\ value = 0 /\ exc = NoExc /\ guards = 0
    /\ log = << >> /\ calls = << >> /\ outcomes = << >> /\ handled = << >>
    /\ exit = << >>
    /\ badAllocWhat = "std::bad_alloc"

(***************************************************************************)
(* Specifications                                                          *)
(***************************************************************************)
StartA(prog) ==
    /\ program = prog
    /\ blk = 1 /\ stmt = 1 /\ pc = "main"
    /\ value = 0 /\ exc = NoExc /\ guards = 0
    /\ log = << >> /\ calls = << >> /\ outcomes = << >> /\ handled = << >>
    /\ exit = << >>
    /\ badAllocWhat \in BadAllocWhatChoices

\* Program A as written
Init == StartA(MainProgram) /\ IdleB

Next ==
    \/ CallProcessData \/ GuardCtor
    \/ If74 \/ If76 \/ If78 \/ If83 \/ Print88
    \/ FindHandler \/ GuardDtor \/ Handler
    \/ CallSafeOperation \/ safeOperation \/ ReturnFromMain

Spec == Init /\ [][Next]_vars

\* processData called once from a guarded scope, on each value of Values
InitPD == (\E v \in Values : StartA(<<CatchAllScope(v)>>)) /\ IdleB

NextPD ==
    \/ CallProcessData \/ GuardCtor
    \/ If74 \/ If76 \/ If78 \/ If83 \/ Print88
    \/ FindHandler \/ GuardDtor \/ Handler
    \/ ReturnFromMain

SpecPD == InitPD /\ [][NextPD]_vars

\* Program B as written, under each build environment
InitB ==
    /\ line = FirstLine
    /\ macros = << >> /\ cond = "none" /\ vars_ = << >>
    /\ bout = << >> /\ bexit = << >>
    /\ env \in [file : Files, date : Dates, time : Times]
    /\ IdleA

NextB ==
    \/ DefineLine \/ UndefLine \/ DeclareLine \/ PrintLine \/ IfElseStatement
    \/ IfdefLine \/ IfLine \/ ElifLine \/ ElseLine \/ EndifLine
    \/ SkipLine \/ ReturnLine

SpecB == InitB /\ [][NextB]_vars

(***************************************************************************)
(* Properties of Program A                                                 *)
(***************************************************************************)
LinesOf(i, stream, items) ==
    {j \in DOMAIN log : log[j].call = i /\ log[j].stream = stream /\ log[j].items = items}
Acquired(i) == LinesOf(i, "out", <<"Resource acquired.">>)
Released(i) == LinesOf(i, "out", <<"Resource released (simulating finally block).">>)
ValidLines(i) == {j \in DOMAIN log : log[j].call = i /\ log[j].stream = "out"
                                      /\ log[j].items[1] = "Value is valid: "}
Diagnostics(i) == {j \in DOMAIN log : log[j].call = i /\ log[j].stream = "err"}
Concluded(i) == i <= Len(outcomes)
Failed(i) == Concluded(i) /\ outcomes[i].kind # "none"
\* call i has failed and the handler of its scope has finished
HandlerDone(i) == Failed(i) /\ (i < Len(calls) \/ pc \in {"main", "done"})

ClaimedKind(v) ==
    IF v < 0 THEN "invalid_argument"
    ELSE IF v = 0 THEN "MyCustomException"
    ELSE IF v > 100 THEN "overflow_error"
    ELSE IF v = 99 THEN "bad_alloc"
    ELSE "none"

ClaimedMessage(v) ==
    IF v < 0 THEN "Negative value is not allowed."
    ELSE IF v = 0 THEN "Zero is not permitted."
    ELSE IF v > 100 THEN "Value exceeds the allowable range."
    ELSE ""

\* C1: processData(value) has exactly one outcome, chosen by first match:
\* value < 0 throws invalid_argument, value = 0 throws MyCustomException,
\* value > 100 throws overflow_error, value = 99 throws bad_alloc (each with the
\* stated message, bad_alloc with none of its own), every other value succeeds;
\* "Value is valid: {value}" is written if and only if the call succeeds.
C1_Classification ==
    /\ exc # NoExc =>
         /\ exc.kind = ClaimedKind(value)
         /\ exc.kind # "bad_alloc" => exc.what = ClaimedMessage(value)
    /\ \A i \in DOMAIN outcomes :
         /\ outcomes[i].arg = calls[i].arg
         /\ outcomes[i].kind = ClaimedKind(outcomes[i].arg)
         /\ outcomes[i].kind # "bad_alloc" => outcomes[i].what = ClaimedMessage(outcomes[i].arg)
         /\ Cardinality(ValidLines(i)) = IF outcomes[i].kind = "none" THEN 1 ELSE 0
    /\ \A j \in DOMAIN log :
         j \in ValidLines(log[j].call) =>
            /\ ClaimedKind(calls[log[j].call].arg) = "none"
            /\ log[j].items = <<"Value is valid: ", ToString(calls[log[j].call].arg)>>

\* the call on the largest accepted value has concluded, and succeeded
C1_Witness ==
    /\ Len(outcomes) = 1
    /\ outcomes[1] = [arg |-> 100, kind |-> "none", what |-> ""]
    /\ Cardinality(ValidLines(1)) = 1

\* C2: every processData call writes exactly one "Resource acquired." line,
\* before classification begins, and exactly one "Resource released ..." line,
\* after classification, in that order, on normal return and on each of the four
\* thrown errors; the release is never skipped and never runs twice.
C2_GuardPair ==
    \A i \in DOMAIN calls : calls[i].fn = "processData" =>
        /\ Cardinality(Acquired(i)) <= 1
        /\ Cardinality(Released(i)) <= 1
        /\ (i < Len(calls) \/ pc # "ctor") => Cardinality(Acquired(i)) = 1
        /\ \A a \in Acquired(i) : \A j \in DOMAIN log : log[j].call = i => a <= j
        /\ (i = Len(calls) /\ pc \in {"ctor", "if74", "if76", "if78", "if83", "print88", "search"})
              => Released(i) = {}
        /\ Concluded(i) =>
              /\ Cardinality(Released(i)) = 1
              /\ \A r \in Released(i) :
                    /\ \A a \in Acquired(i) : a < r
                    /\ \A v \in ValidLines(i) : v < r

\* a call that threw has concluded with its release written
C2_Witness ==
    /\ Len(outcomes) = 1
    /\ outcomes[1].kind = "bad_alloc"
    /\ Cardinality(Acquired(1)) = 1
    /\ Cardinality(Released(1)) = 1

ProcessDataCalls == {i \in DOMAIN calls : calls[i].fn = "processData"}
AllLines(items) == {j \in DOMAIN log : log[j].items = items}

\* C4: a complete run of main writes exactly 7 acquire/release pairs, one per
\* processData call (the scope holding the calls on 50 and 999 contributes 2),
\* exactly one error diagnostic for each failing call (-1, 0, 101, 99, 999) and
\* none for a succeeding call (10, 50).
C4_EndToEnd ==
    /\ \A i \in DOMAIN calls : Cardinality(Diagnostics(i)) <= 1
    /\ pc = "done" =>
         /\ Cardinality(ProcessDataCalls) = 7
         /\ Cardinality(AllLines(<<"Resource acquired.">>)) = 7
         /\ Cardinality(AllLines(<<"Resource released (simulating finally block).">>)) = 7
         /\ \A i \in ProcessDataCalls :
               /\ Cardinality(Acquired(i)) = 1
               /\ Cardinality(Released(i)) = 1
               /\ \A a \in Acquired(i) : \A r \in Released(i) : a < r
               /\ Cardinality(Diagnostics(i)) =
                     IF calls[i].arg \in {-1, 0, 101, 99, 999} THEN 1 ELSE 0
               /\ Failed(i) <=> calls[i].arg \in {-1, 0, 101, 99, 999}
         /\ Cardinality({i \in ProcessDataCalls : calls[i].scope = 6}) = 2
         /\ {calls[i].arg : i \in ProcessDataCalls} = {-1, 0, 101, 99, 10, 50, 999}
         /\ Cardinality({j \in DOMAIN log : log[j].stream = "err"}) = 5

\* the run is complete: 14 guard lines, 2 value lines, 5 diagnostics, 1 safeOperation line
C4_Witness ==
    /\ pc = "done"
    /\ Len(log) = 22
    /\ Len(outcomes) = 7

\* the error kind a diagnostic text names, if any
KindNamedBy(text) ==
    CASE text = "Caught a logic error (invalid_argument): " -> "invalid_argument"
      [] text = "Caught a custom exception: " -> "MyCustomException"
      [] text = "Caught a runtime error (overflow_error): " -> "overflow_error"
      [] text = "Caught a memory allocation error (bad_alloc): " -> "bad_alloc"
      [] OTHER -> "none"

\* a failing call gives one line on the error stream, then the driver goes on
\* with the step after the scope, and the failed call is not made again
OneLineThenContinue ==
    /\ pc # "terminated"
    /\ \A i \in DOMAIN calls : Cardinality(Diagnostics(i)) <= 1
    /\ \A i \in DOMAIN calls :
         HandlerDone(i) =>
            /\ Cardinality(Diagnostics(i)) = 1
            /\ blk > calls[i].scope
            /\ \A k \in DOMAIN calls : k > i => calls[k].scope > calls[i].scope
    /\ \A i \in DOMAIN calls : \A k \in DOMAIN calls : i # k => calls[i] # calls[k]
    /\ pc = "done" => Len(calls) = 8

\* the diagnostic of call i names the kind thrown and carries its what()
NamesKindAndPayload(j) ==
    LET o == outcomes[log[j].call] IN
    /\ Len(log[j].items) = 2
    /\ KindNamedBy(log[j].items[1]) = o.kind
    /\ log[j].items[2] = o.what

\* C5 as stated: every failing processData call of main gives a single
\* diagnostic line on the error stream that names the error kind and carries
\* the error's message payload, then control returns to the driver and the
\* next step runs, with no retry.
C5_Original ==
    /\ OneLineThenContinue
    /\ \A j \in DOMAIN log : log[j].stream = "err" => NamesKindAndPayload(j)

\* C5 as amended: every failing processData call of main gives a single
\* diagnostic line on the error stream, then control returns to the driver and
\* the next step runs, with no retry; the line names the error kind and carries
\* e.what() for the calls caught by a typed handler (-1, 0, 101, 99), and is the
\* bare text "Caught an unexpected exception." for the call on 999, which the
\* catch-all handler catches.
C5_Amended ==
    /\ OneLineThenContinue
    /\ \A j \in DOMAIN log : log[j].stream = "err" =>
          IF calls[log[j].call].arg = 999
          THEN log[j].items = <<"Caught an unexpected exception.">>
          ELSE /\ calls[log[j].call].arg \in {-1, 0, 101, 99}
               /\ NamesKindAndPayload(j)

\* the handlers of a typed scope and of the catch-all scope have both run
C5_Witness ==
    /\ pc = "done"
    /\ \E j \in DOMAIN log :
          log[j].stream = "err" /\ calls[log[j].call].arg = 999
    /\ \E j \in DOMAIN log :
          log[j].stream = "err" /\ calls[log[j].call].arg = 99 /\ log[j].items[2] = badAllocWhat

\* the handler type h accepts kind: the same type, a base of it, or catch-all
ClaimedAccepts(h, kind) ==
    \/ h = "..."
    \/ h = kind
    \/ h = "exception"
    \/ h = "logic_error" /\ kind = "invalid_argument"
    \/ h = "runtime_error" /\ kind = "overflow_error"

\* C6: every error processData raises during main is caught by the handler of
\* the guarded scope of the call that raised it; none escapes main,
\* std::terminate is never reached, and the program ends with exit status 0.
C6_AllCaught ==
    /\ pc # "terminated"
    /\ exit \in {<< >>, <<0>>}
    /\ pc \in {"dtor", "handler"} /\ exc # NoExc =>
          /\ blk = calls[Len(calls)].scope
          /\ ClaimedAccepts(program[blk].handler, exc.kind)
    /\ pc \in {"main", "done"} =>
          /\ exc = NoExc
          /\ {handled[k] : k \in DOMAIN handled} = {calls[i].scope : i \in {n \in DOMAIN outcomes : Failed(n)}}
    /\ pc = "done" => exit = <<0>>

\* main has returned 0 after the five handlers ran
C6_Witness ==
    /\ pc = "done"
    /\ exit = <<0>>
    /\ handled = <<1, 2, 3, 4, 6>>

ClaimedCalls ==
    << [fn |-> "processData", arg |-> -1, scope |-> 1],
       [fn |-> "processData", arg |-> 0, scope |-> 2],
       [fn |-> "processData", arg |-> 101, scope |-> 3],
       [fn |-> "processData", arg |-> 99, scope |-> 4],
       [fn |-> "processData", arg |-> 10, scope |-> 5],
       [fn |-> "processData", arg |-> 50, scope |-> 6],
       [fn |-> "processData", arg |-> 999, scope |-> 6],
       [fn |-> "safeOperation", arg |-> 0, scope |-> 7] >>

\* C7: main calls processData exactly seven times, on -1, 0, 101, 99, 10, 50,
\* 999 in that order (50 and 999 in the same guarded scope), then safeOperation
\* exactly once; no failure makes a later call of the sequence be skipped, and
\* safeOperation's catch-all handler is never entered.
C7_Sequence ==
    /\ Len(calls) <= Len(ClaimedCalls)
    /\ \A i \in DOMAIN calls : calls[i] = ClaimedCalls[i]
    /\ pc = "done" => calls = ClaimedCalls
    /\ \A k \in DOMAIN handled : program[handled[k]].stmts # <<SafeOp>>
    /\ pc \in {"search", "handler"} => calls[Len(calls)].fn # "safeOperation"

\* the run is complete and the call on 999 was made after the one on 50
C7_Witness ==
    /\ pc = "done"
    /\ Len(calls) = 8
    /\ calls[7].arg = 999 /\ calls[8].fn = "safeOperation"

\* C10: for every failing processData call of main the guard's release is
\* written before the handler at the call site starts and writes its
\* diagnostic; no ResourceGuard is alive while a handler body runs, and at most
\* one is alive at any point of the run.
C10_ReleaseBeforeHandler ==
    /\ guards \in {0, 1}
    /\ pc = "handler" =>
          /\ guards = 0
          /\ Cardinality(Released(Len(calls))) = 1
    /\ \A j \in DOMAIN log : log[j].stream = "err" =>
          \E r \in Released(log[j].call) : r < j

\* a handler is about to run, the guard's release being the last line written
C10_Witness ==
    /\ pc = "handler"
    /\ guards = 0
    /\ log[Len(log)].items = <<"Resource released (simulating finally block).">>

(***************************************************************************)
(* Properties of Program B                                                 *)
(***************************************************************************)
Ended == bexit # << >>
LinesWith(items) == {i \in DOMAIN bout : bout[i].items = items}

\* C3: with difficulty fixed at 2 the #if / #elif / #else selection writes
\* exactly one line, "Normal mode activated.", and neither "Easy mode
\* activated." nor "Hard mode activated." appears anywhere in the output.
C3_NormalMode ==
    Ended =>
       /\ Cardinality(LinesWith(<<"Normal mode activated.">>)) = 1
       /\ LinesWith(<<"Easy mode activated.">>) = {}
       /\ LinesWith(<<"Hard mode activated.">>) = {}

\* C8: each use of the health threshold takes the definition current at that
\* point: the first comparison tests 90 against 100 and writes "Your current
\* health is: 90 out of 100", never "Health exceeds maximum limit!"; after the
\* #undef and the redefinition to 150 the second line is "Boss health: 120 out
\* of 150"; the redefinition leaves the earlier line as it was.
C8_Thresholds ==
    /\ LinesWith(<<"Health exceeds maximum limit!">>) = {}
    /\ line > 46 =>
          /\ Len(bout) >= 2
          /\ bout[2].items = <<"Your current health is: ", "90", " out of ", "100">>
    /\ line > 57 =>
          /\ Len(bout) >= 3
          /\ bout[3].items = <<"Boss health: ", "120", " out of ", "150">>

\* the threshold has been redefined and both lines are written
C8_Witness ==
    /\ line > 57
    /\ IsDefined(macros, "MAX_HEALTH") /\ macros["MAX_HEALTH"].body = <<Num(150)>>
    /\ bout[2].items[4] = "100"
    /\ bout[3].items[4] = "150"

\* the lines written after the last debug line and before the difficulty line
MetadataLines == {i \in DOMAIN bout : 7 < i /\ i < Len(bout)}

\* C9 as stated: after the debug lines Program B writes four build-metadata
\* lines, in the order source identifier, build date, build time, line counter
\* value, the last being the source line number of the statement printing it.
C9_Original ==
    Ended =>
       /\ bout[7].items[1] = "[DEBUG] Boss health: "
       /\ Cardinality(MetadataLines) = 4
       /\ bout[8].items[Len(bout[8].items)] = env.file
       /\ bout[9].items[Len(bout[9].items)] = env.date
       /\ bout[10].items[Len(bout[10].items)] = env.time
       /\ bout[11].items[Len(bout[11].items)] = ToString(bout[11].src)

\* C9 as amended: after the debug lines Program B writes three build-metadata
\* lines carrying four values, in the order source identifier; build date and
\* build time together on one line ("Compiled on: {date} at {time}"); line
\* counter value, which is the source line number (72) of the statement
\* printing it.
C9_Amended ==
    /\ line > 72 =>
          /\ Len(bout) >= 10
          /\ bout[7].items[1] = "[DEBUG] Boss health: "
          /\ bout[8].items = <<"File: ", env.file>>
          /\ bout[9].items = <<"Compiled on: ", env.date, " at ", env.time>>
          /\ bout[10].items = <<"Current line number: ", "72">>
          /\ bout[10].src = 72
    /\ Ended => Cardinality(MetadataLines) = 3

\* the program has ended with the line counter line written
C9_Witness ==
    /\ Ended
    /\ Len(bout) = 11
    /\ bout[10].items[2] = "72"
    /\ bout[9].items[4] = env.time

====
